---------------------------- MODULE Spec2Model ----------------------------
(***************************************************************************)
(* Darkroom simulator: the colour engine of src/utils/colorLogic.ts        *)
(* (calculateDelta, clamp, processImageBuffer) and the App component that  *)
(* drives it (settings, image load, animation-frame render passes).        *)
(*                                                                         *)
(* Number representation.  Filter settings move in steps of 0.5 (the       *)
(* slider's step; the +/- buttons move by 1), so a setting or a delta is   *)
(* kept as an integer count of half units: 100 stands for 50.0.  Values    *)
(* inside processImageBuffer are kept in units of 1/Scale of an RGB level, *)
(* which represents r + gain - gain*XTALK - gain*XTALK exactly.  The code  *)
(* computes in IEEE doubles; a double differs from the exact value by far  *)
(* less than 1/Scale, so it can change the stored sample only when the     *)
(* exact value lies exactly half way between two levels.  There the        *)
(* stored sample is either neighbour (ToUint8Clamp returns both).          *)
(***************************************************************************)
EXTENDS Integers, Sequences, FiniteSets

\* ------------------------------------------------------------------ bounds
MaxPixels == 1          \* pixels per image buffer
MaxInFlight == 1        \* file reads / image decodes in flight at a time

\* --------------------------------------------------------------- constants
STRENGTH == 18          \* 1.8, in tenths
XTALK == 15             \* 0.15, in hundredths
Scale == 20 * 100       \* fixed-point unit: 1/2000 of an RGB level
MaxSample == 255
MaxSetting == 2 * 200   \* 200 filter units, in half units

Keys == {"c", "m", "y"}

CMY(c, m, y) == [c |-> c, m |-> m, y |-> y]

\* ------------------------------------------------------------ colour logic
calculateDeltaSwapped(initial, target) ==
  [c |-> initial.c - target.c, m |-> initial.m - target.m, y |-> initial.y - target.y]

calculateDelta(initial, target) ==
  [c |-> target.c - initial.c, m |-> target.m - initial.m, y |-> target.y - initial.y]

Min(a, b) == IF a < b THEN a ELSE b
Max(a, b) == IF a > b THEN a ELSE b
Dist(a, b) == IF a > b THEN a - b ELSE b - a

\* clamp on values scaled by Scale
clamp(val) == Max(0, Min(MaxSample * Scale, val))

\* The store into a Uint8ClampedArray element: clamp to [0,255], round to
\* the nearest integer.  val is scaled by Scale.  At an exact tie the double
\* the code holds may sit on either side, so both neighbours are returned
\* (an exact double tie rounds to even, which is one of the two).
ToUint8Clamp(val) ==
  LET v == Max(0, Min(MaxSample * Scale, val))
      q == v \div Scale
      rem == v % Scale
  IN  IF 2 * rem < Scale THEN {q}
      ELSE IF 2 * rem > Scale THEN {q + 1}
      ELSE {q, q + 1}

\* gains, in units of 1/20 of an RGB level (delta in half units * tenths)
gainB(delta) == delta.y * STRENGTH
gainG(delta) == delta.m * STRENGTH
gainR(delta) == delta.c * STRENGTH

\* the linear combinations of lines 69-71, scaled by Scale
\* (gain/20 -> 100*gain/Scale ; gain/20 * XTALK/100 -> gain*XTALK/Scale)
newRPerTerm(r, delta) ==
  clamp(Scale * r + 100 * gainR(delta)) - gainG(delta) * XTALK - gainB(delta) * XTALK

newRNoXtalk(r, delta) == Scale * r + 100 * gainR(delta)

newR(r, delta) == Scale * r + 100 * gainR(delta) - gainG(delta) * XTALK - gainB(delta) * XTALK
newG(g, delta) == Scale * g + 100 * gainG(delta) - gainR(delta) * XTALK - gainB(delta) * XTALK
newB(b, delta) == Scale * b + 100 * gainB(delta) - gainR(delta) * XTALK - gainG(delta) * XTALK

\* a plain Uint8Array element without the clamp helper: round, then wrap
StoreWrapped(val) ==
  LET q == val \div Scale
      rem == val % Scale
  IN  IF 2 * rem < Scale THEN {q % 256}
      ELSE IF 2 * rem > Scale THEN {(q + 1) % 256}
      ELSE {q % 256, (q + 1) % 256}

\* destination[i] = clamp(newX): the values the element can hold afterwards
Store(val) == ToUint8Clamp(clamp(val))

\* One iteration of the loop body (lines 59-76) on the pixel at offset i:
\* the set of 4-sample results that can be written to destination[i..i+3].
PixelSwapped(source, i, delta) ==
  { <<nb, ng, nr, source[i + 3]>> :
      nr \in Store(newR(source[i], delta)),
      ng \in Store(newG(source[i + 1], delta)),
      nb \in Store(newB(source[i + 2], delta)) }

PixelOpaque(source, i, delta) ==
  { <<nr, ng, nb, MaxSample>> :
      nr \in Store(newR(source[i], delta)),
      ng \in Store(newG(source[i + 1], delta)),
      nb \in Store(newB(source[i + 2], delta)) }

Pixel(source, i, delta) ==
  { <<nr, ng, nb, source[i + 3]>> :
      nr \in Store(newR(source[i], delta)),
      ng \in Store(newG(source[i + 1], delta)),
      nb \in Store(newB(source[i + 2], delta)) }

\* The loop of lines 58-77 from offset i on: the heap (source, destination)
\* after the remaining iterations.  Samples are 1-indexed here, so the
\* code's offset i is i + 1.
RECURSIVE Loop(_, _, _, _)
Loop(source, destination, delta, i) ==
  IF i > Len(source) THEN {[source |-> source, destination |-> destination]}
  ELSE UNION { Loop(source,
                    [k \in 1..Len(destination) |->
                       IF k >= i /\ k <= i + 3 THEN p[k - i + 1] ELSE destination[k]],
                    delta, i + 4) : p \in Pixel(source, i, delta) }

RECURSIVE LoopInPlace(_, _, _, _)
LoopInPlace(source, destination, delta, i) ==
  IF i > Len(source) THEN {[source |-> source, destination |-> source]}
  ELSE UNION { LoopInPlace([k \in 1..Len(source) |->
                              IF k >= i /\ k <= i + 3 THEN p[k - i + 1] ELSE source[k]],
                           destination, delta, i + 4) : p \in Pixel(source, i, delta) }

processImageBufferInPlace(source, destination, delta) == LoopInPlace(source, destination, delta, 1)

\* processImageBuffer(source, destination, delta): the possible heaps after
\* the call; .source is the source array afterwards, .destination the
\* destination array afterwards.
processImageBuffer(source, destination, delta) == Loop(source, destination, delta, 1)

\* ctx.createImageData: a zero-filled buffer of the same dimensions
createImageData(data) == [k \in 1..Len(data) |-> 0]


\* ------------------------------------------------------------------- state
VARIABLES
  \* engine harness: one call chain of the exported functions
  base, target, delta, source, destination, twice, doubled, phase,
  \* App component
  imageSrc, initialCMY, targetCMY, isInitialLocked, showOriginal,
  originalImageData, canvas, reading, loading, rafPending, animationFrameId,
  lastPass

engineVars == <<base, target, delta, source, destination, twice, doubled, phase>>
appVars == <<imageSrc, initialCMY, targetCMY, isInitialLocked, showOriginal,
             originalImageData, canvas, reading, loading, rafPending,
             animationFrameId, lastPass>>
vars == <<engineVars, appVars>>

None == <<>>
NoImage == 0        \* imageSrc = null

\* state of the App right after mount: useState initial values (lines
\* 98-112) and the render effect's first requestAnimationFrame (line 204),
\* whose callback closes over the first render's delta and showOriginal.
AppInit ==
  /\ imageSrc = NoImage
  /\ initialCMY = CMY(0, 100, 100)
  /\ targetCMY = CMY(0, 100, 100)
  /\ isInitialLocked = TRUE
  /\ showOriginal = FALSE
  /\ originalImageData = None
  /\ canvas = None
  /\ reading = {}
  /\ loading = {}
  /\ rafPending = {[id |-> 1, delta |-> CMY(0, 0, 0), showOriginal |-> FALSE]}
  /\ animationFrameId = 1
  /\ lastPass = "none"

\* -------------------------------------------------- engine harness (pure)
PixelSet ==
  { <<128, 128, 128, 255>>, <<250, 250, 250, 255>>, <<5, 5, 5, 0>>,
    <<0, 255, 1, 7>>, <<254, 1, 128, 128>>, <<200, 100, 50, 255>> }

RECURSIVE BuffersOf(_)
BuffersOf(n) ==
  IF n = 1 THEN PixelSet
  ELSE { b \o p : b \in BuffersOf(n - 1), p \in PixelSet }

BufferSet == UNION { BuffersOf(n) : n \in 1..MaxPixels }

BaseSet == { CMY(0, 0, 0), CMY(0, 100, 100), CMY(400, 400, 400) }
TargetVals == { 0, 1, 2, 4, 20, 100, 200, 400 }
TargetSet == { CMY(c, m, y) : c \in TargetVals, m \in TargetVals, y \in TargetVals }

Twice(d) == [c |-> 2 * d.c, m |-> 2 * d.m, y |-> 2 * d.y]

EngineInit ==
  /\ base \in BaseSet
  /\ target \in TargetSet
  /\ source \in BufferSet
  /\ delta = None
  /\ destination = None
  /\ twice = None
  /\ doubled = None
  /\ phase = "start"
  /\ AppInit

\* delta = calculateDelta(base, target)
CalcDelta ==
  /\ phase = "start"
  /\ delta' = calculateDelta(base, target)
  /\ phase' = "delta"
  /\ UNCHANGED <<base, target, source, destination, twice, doubled, appVars>>

\* processImageBuffer(source, freshly created destination, delta)
Transform ==
  /\ phase = "delta"
  /\ \E heap \in processImageBuffer(source, createImageData(source), delta) :
       /\ source' = heap.source
       /\ destination' = heap.destination
  /\ phase' = "once"
  /\ UNCHANGED <<base, target, delta, twice, doubled, appVars>>

\* a second pass with the same delta on the first pass's output
Reapply ==
  /\ phase = "once"
  /\ \E heap \in processImageBuffer(destination, createImageData(destination), delta) :
       /\ destination' = heap.source
       /\ twice' = heap.destination
  /\ phase' = "twice"
  /\ UNCHANGED <<base, target, delta, source, doubled, appVars>>

\* one pass with 2*delta on the source
TransformDouble ==
  /\ phase = "twice"
  /\ \E heap \in processImageBuffer(source, createImageData(source), Twice(delta)) :
       /\ source' = heap.source
       /\ doubled' = heap.destination
  /\ phase' = "done"
  /\ UNCHANGED <<base, target, delta, destination, twice, appVars>>

EngineNext == CalcDelta \/ Transform \/ Reapply \/ TransformDouble

EngineSpec == EngineInit /\ [][EngineNext]_vars


\* ------------------------------------------------------------------- App
\* delta = calculateDelta(initialCMY, targetCMY), recomputed by every render
Delta == calculateDelta(initialCMY, targetCMY)

\* the files the user can pick, and the pixels the browser decodes from each
\* (data URL -> img -> drawImage -> getImageData)
Files == {1, 2}

RECURSIVE Repeat(_, _)
Repeat(p, n) == IF n = 0 THEN <<>> ELSE p \o Repeat(p, n - 1)

Decode(file) ==
  IF file = 1 THEN Repeat(<<128, 128, 128, 255>>, MaxPixels)
  ELSE Repeat(<<250, 5, 128, 7>>, MaxPixels)

\* Input bounds.  The controls of the cyan channel are the ones operated:
\* its slider is dragged to either end, and its +/- buttons are pressed
\* where the result is one of NearEnds or leaves [0, MaxSetting].  The
\* magenta and yellow settings keep their initial value.
EditedKeys == {"c"}
SliderStops == {0, MaxSetting}
NearEnds == {0, 2, MaxSetting - 2, MaxSetting}

\* requestAnimationFrame's handle: an id no pending callback has
FreshId(pending) ==
  CHOOSE n \in 1..(Cardinality(pending) + 1) : \A p \in pending : p.id # n

\* cancelAnimationFrame(id)
cancelAnimationFrame(pending, id) == { p \in pending : p.id # id }

\* a render effect that forgets its cleanup
RenderEffectNoCancel(d, so) ==
  IF d # Delta \/ so # showOriginal
  THEN LET id == FreshId(rafPending)
       IN  /\ rafPending' = rafPending \cup {[id |-> id, delta |-> d, showOriginal |-> so]}
           /\ animationFrameId' = id
  ELSE UNCHANGED <<rafPending, animationFrameId>>

\* The render effect (lines 196-206) after a render whose delta is d and
\* whose showOriginal is so: when a dependency changed, the previous
\* effect's cleanup cancels its frame and the new effect requests one whose
\* callback closes over this render's applyFilter (d, so).
RenderEffect(d, so) ==
  IF d # Delta \/ so # showOriginal
  THEN LET kept == cancelAnimationFrame(rafPending, animationFrameId)
           id == FreshId(kept)
       IN  /\ rafPending' = kept \cup {[id |-> id, delta |-> d, showOriginal |-> so]}
           /\ animationFrameId' = id
  ELSE UNCHANGED <<rafPending, animationFrameId>>

\* applyFilter (lines 173-193) as the closure of a render whose delta is d
\* and whose showOriginal is so, run when the ref holds originalData.
\* lastPass records the branch taken: "original" (putImageData of the
\* cached data) or "transform" (processImageBuffer was called).
applyFilter(originalData, d, so) ==
  IF originalData = None
  THEN /\ originalImageData' = originalData
       /\ UNCHANGED <<canvas, lastPass>>
  ELSE IF so
  THEN /\ canvas' = originalData
       /\ originalImageData' = originalData
       /\ lastPass' = "original"
  ELSE \E heap \in processImageBuffer(originalData, createImageData(originalData), d) :
         /\ canvas' = heap.destination
         /\ originalImageData' = heap.source
         /\ lastPass' = "transform"

\* handleImageUpload (lines 115-126): start reading the chosen file
HandleImageUpload(file) ==
  /\ Cardinality(reading) + Cardinality(loading) < MaxInFlight
  /\ reading' = reading \cup {file}
  /\ UNCHANGED <<imageSrc, initialCMY, targetCMY, isInitialLocked, showOriginal,
                 originalImageData, canvas, loading, rafPending, animationFrameId,
                 lastPass, engineVars>>

\* reader.onload (lines 119-123), the render it causes and the image effect
\* (lines 129-168): when imageSrc changed, a new img starts loading and its
\* onload closes over this render's applyFilter
ReaderLoad(file) ==
  /\ file \in reading
  /\ reading' = reading \ {file}
  /\ imageSrc' = file
  /\ isInitialLocked' = FALSE
  /\ loading' = IF imageSrc' # imageSrc
                THEN loading \cup {[src |-> file, delta |-> Delta, showOriginal |-> showOriginal]}
                ELSE loading
  /\ UNCHANGED <<initialCMY, targetCMY, showOriginal, originalImageData, canvas,
                 rafPending, animationFrameId, lastPass, engineVars>>

\* img.onload (lines 133-166): draw, cache the pixel data, initial render pass
ImgLoad(img) ==
  /\ img \in loading
  /\ loading' = loading \ {img}
  /\ applyFilter(Decode(img.src), img.delta, img.showOriginal)
  /\ UNCHANGED <<imageSrc, initialCMY, targetCMY, isInitialLocked, showOriginal,
                 reading, rafPending, animationFrameId, engineVars>>

\* the animation-frame callback render (lines 200-202)
AnimationFrame(p) ==
  /\ p \in rafPending
  /\ rafPending' = rafPending \ {p}
  /\ applyFilter(originalImageData, p.delta, p.showOriginal)
  /\ UNCHANGED <<imageSrc, initialCMY, targetCMY, isInitialLocked, showOriginal,
                 reading, loading, animationFrameId, engineVars>>

ClampSetting(val) == Max(0, Min(MaxSetting, val))

\* updateInitial writing the base setting only
updateInitialBaseOnly(key, val) ==
  /\ initialCMY' = [initialCMY EXCEPT ![key] = ClampSetting(val)]
  /\ targetCMY' = targetCMY

\* updateInitial (lines 209-213)
updateInitial(key, val) ==
  /\ initialCMY' = [initialCMY EXCEPT ![key] = ClampSetting(val)]
  /\ targetCMY' = [targetCMY EXCEPT ![key] = ClampSetting(val)]

\* updateTarget storing the value as given
updateTargetUnclamped(key, val) ==
  /\ targetCMY' = [targetCMY EXCEPT ![key] = val]
  /\ initialCMY' = initialCMY

\* updateTarget (lines 215-217)
updateTarget(key, val) ==
  /\ targetCMY' = [targetCMY EXCEPT ![key] = ClampSetting(val)]
  /\ initialCMY' = initialCMY

\* the value prop and the onChange prop of a FilterChannel (lines 351-376)
Value(key) == IF isInitialLocked THEN targetCMY[key] ELSE initialCMY[key]

onChange(key, val) ==
  /\ IF isInitialLocked THEN updateTarget(key, val) ELSE updateInitial(key, val)
  /\ RenderEffect(calculateDelta(initialCMY', targetCMY'), showOriginal)
  /\ UNCHANGED <<imageSrc, isInitialLocked, showOriginal, originalImageData, canvas,
                 reading, loading, lastPass, engineVars>>

\* FilterChannel handlers (part_000 lines 23-27); isLocked is never passed
HandleSliderChange(key, val) == onChange(key, val)

HandleIncrement(key) ==
  /\ Value(key) + 2 > MaxSetting \/ Value(key) + 2 \in NearEnds
  /\ onChange(key, Value(key) + 2)

HandleDecrement(key) ==
  /\ Value(key) - 2 < 0 \/ Value(key) - 2 \in NearEnds
  /\ onChange(key, Value(key) - 2)

\* resetTarget (line 220); its button is rendered only when isInitialLocked
ResetTarget ==
  /\ isInitialLocked
  /\ targetCMY' = initialCMY
  /\ RenderEffect(calculateDelta(initialCMY, targetCMY'), showOriginal)
  /\ UNCHANGED <<imageSrc, initialCMY, isInitialLocked, showOriginal,
                 originalImageData, canvas, reading, loading, lastPass, engineVars>>

\* the workflow tabs (lines 317-331)
SetIsInitialLocked(b) ==
  /\ isInitialLocked # b
  /\ isInitialLocked' = b
  /\ UNCHANGED <<imageSrc, initialCMY, targetCMY, showOriginal, originalImageData,
                 canvas, reading, loading, rafPending, animationFrameId, lastPass,
                 engineVars>>

\* the compare button (lines 274-286), rendered only when imageSrc is set
SetShowOriginal(b) ==
  /\ imageSrc # NoImage
  /\ showOriginal # b
  /\ showOriginal' = b
  /\ RenderEffect(Delta, b)
  /\ UNCHANGED <<imageSrc, initialCMY, targetCMY, isInitialLocked,
                 originalImageData, canvas, reading, loading, lastPass, engineVars>>

Init ==
  /\ AppInit
  /\ base = CMY(0, 0, 0) /\ target = CMY(0, 0, 0) /\ delta = None
  /\ source = None /\ destination = None /\ twice = None /\ doubled = None
  /\ phase = "idle"

Next ==
  \/ \E file \in Files : HandleImageUpload(file)
  \/ \E file \in Files : ReaderLoad(file)
  \/ \E img \in loading : ImgLoad(img)
  \/ \E p \in rafPending : AnimationFrame(p)
  \/ \E key \in EditedKeys, val \in SliderStops : HandleSliderChange(key, val)
  \/ \E key \in EditedKeys : HandleIncrement(key)
  \/ \E key \in EditedKeys : HandleDecrement(key)
  \/ ResetTarget
  \/ \E b \in BOOLEAN : SetIsInitialLocked(b)
  \/ \E b \in BOOLEAN : SetShowOriginal(b)

Spec == Init /\ [][Next]_vars

\* ------------------------------------------------------- engine properties
Transformed == phase \in {"once", "twice", "done"}

\* offsets (1-based) of the first sample of each pixel of a buffer
Offsets(buf) == { i \in 1..Len(buf) : i % 4 = 1 }

\* The linear combinations as the specification states them, in units of
\* 1/2000 level with d in half units: 1.8 * d/2 = 0.9 d -> 1800 d, and
\* 0.15 * 0.9 d -> 270 d.
LinR(r, d) == 2000 * r + 1800 * d.c - 270 * d.m - 270 * d.y
LinG(g, d) == 2000 * g + 1800 * d.m - 270 * d.c - 270 * d.y
LinB(b, d) == 2000 * b + 1800 * d.y - 270 * d.c - 270 * d.m

\* s is lin/2000 clamped once to [0,255] and rounded to an 8-bit sample
ClampedSample(s, lin) ==
  /\ s \in 0..255
  /\ lin >= 255 * 2000 => s = 255
  /\ lin <= 0 => s = 0
  /\ (lin > 0 /\ lin < 255 * 2000) =>
        (2000 * s - lin <= 1000 /\ lin - 2000 * s <= 1000)

\* C1: every colour sample written by processImageBuffer is the full linear
\* combination clamped once to [0,255] and stored as an 8-bit sample (it
\* saturates, never wraps), and (128,128,128,255) with delta {C:0,M:10,Y:0}
\* becomes (125,146,125,255).
C1_ClampedLinearCombination ==
  Transformed =>
    /\ Len(destination) = Len(source)
    /\ \A i \in Offsets(source) :
         /\ ClampedSample(destination[i], LinR(source[i], delta))
         /\ ClampedSample(destination[i + 1], LinG(source[i + 1], delta))
         /\ ClampedSample(destination[i + 2], LinB(source[i + 2], delta))
    /\ (source = <<128, 128, 128, 255>> /\ delta = CMY(0, 20, 0))
         => destination = <<125, 146, 125, 255>>

C1_Witness ==
  /\ phase = "once"
  /\ source[1] = 250 /\ delta.c = 200 /\ destination[1] = 255

\* C2: with delta {0,0,0} the destination equals the source sample for
\* sample, alpha included.
C2_ZeroDeltaIdentity ==
  (Transformed /\ delta = CMY(0, 0, 0)) => destination = source

C2_Witness ==
  /\ phase = "once" /\ delta = CMY(0, 0, 0)
  /\ source = <<0, 255, 1, 7>> /\ destination = source

\* C3: destination[i+3] = source[i+3] for every pixel offset i, whatever the
\* delta.
C3_AlphaPreserved ==
  Transformed => \A i \in Offsets(source) : destination[i + 3] = source[i + 3]

C3_Witness ==
  /\ phase = "once" /\ delta = CMY(-400, -400, -400)
  /\ source[4] = 7 /\ destination[4] = 7

\* a pixel whose r, g, b are strictly inside (0,255)
Interior(buf, i) == \A k \in {i, i + 1, i + 2} : buf[k] > 0 /\ buf[k] < 255

MagentaOnly == delta.c = 0 /\ delta.y = 0 /\ delta.m > 0

\* C5 as stated: with only delta.M > 0, every interior pixel's stored green
\* sample strictly increases and its stored red and blue strictly decrease.
C5_Original ==
  (Transformed /\ MagentaOnly) =>
    \A i \in Offsets(source) : Interior(source, i) =>
      /\ destination[i + 1] > source[i + 1]
      /\ destination[i] < source[i]
      /\ destination[i + 2] < source[i + 2]

\* C5 amended: with only delta.M > 0, for every interior pixel the
\* linear combinations move strictly (green up, red and blue down); the
\* stored samples never move the other way, green is strictly larger once
\* delta.M >= 0.5 and red and blue strictly smaller once delta.M >= 2
\* (a crosstalk shift of 0.27*delta.M below half a level rounds away).
C5_CrosstalkSign ==
  (Transformed /\ MagentaOnly) =>
    \A i \in Offsets(source) : Interior(source, i) =>
      /\ newG(source[i + 1], delta) > Scale * source[i + 1]
      /\ newR(source[i], delta) < Scale * source[i]
      /\ newB(source[i + 2], delta) < Scale * source[i + 2]
      /\ destination[i + 1] >= source[i + 1]
      /\ destination[i] <= source[i]
      /\ destination[i + 2] <= source[i + 2]
      /\ delta.m >= 1 => destination[i + 1] > source[i + 1]
      /\ delta.m >= 4 => (destination[i] < source[i] /\ destination[i + 2] < source[i + 2])

C5_Witness ==
  /\ phase = "once" /\ delta = CMY(0, 4, 0)
  /\ source = <<128, 128, 128, 255>> /\ destination = <<127, 132, 127, 255>>

\* a colour sample of buf at pixel offset i is clamped by a pass with d
ClampedR(buf, i, d) == LinR(buf[i], d) < 0 \/ LinR(buf[i], d) > 255 * 2000
ClampedG(buf, i, d) == LinG(buf[i + 1], d) < 0 \/ LinG(buf[i + 1], d) > 255 * 2000
ClampedB(buf, i, d) == LinB(buf[i + 2], d) < 0 \/ LinB(buf[i + 2], d) > 255 * 2000
ClampedAny(buf, d) ==
  \E i \in Offsets(buf) : ClampedR(buf, i, d) \/ ClampedG(buf, i, d) \/ ClampedB(buf, i, d)

\* some channel saturated in the first pass, the second pass or the 2*d pass
SaturatedDuringPasses ==
  \/ ClampedAny(source, delta)
  \/ ClampedAny(destination, delta)
  \/ ClampedAny(source, Twice(delta))

\* C6 as stated: once any channel has saturated, two passes with d differ
\* from one pass with 2*d.
C6_Original ==
  (phase = "done" /\ SaturatedDuringPasses) => twice # doubled

\* C6 amended: two passes with d and one pass with 2*d are not equal in
\* general, but saturation is not what separates them: every sample of the
\* two results differs by at most one level (8-bit rounding of the
\* intermediate pass), and a colour sample that the first pass clamped to 0
\* or 255 is identical in the two results.
C6_NonComposability ==
  phase = "done" =>
    /\ Len(twice) = Len(doubled)
    /\ \A k \in 1..Len(twice) : Dist(twice[k], doubled[k]) <= 1
    /\ \A i \in Offsets(source) :
         /\ ClampedR(source, i, delta) => twice[i] = doubled[i]
         /\ ClampedG(source, i, delta) => twice[i + 1] = doubled[i + 1]
         /\ ClampedB(source, i, delta) => twice[i + 2] = doubled[i + 2]

C6_Witness ==
  /\ phase = "done" /\ ClampedR(source, 1, delta)
  /\ source[1] = 250 /\ delta.c = 200 /\ twice = doubled

\* C7: calculateDelta returns target.X - base.X per channel, unclamped, and
\* leaves both settings as they were.
C7_DeltaLinearity ==
  [][(phase = "start" /\ phase' = "delta") =>
        /\ delta'.c = target.c - base.c
        /\ delta'.m = target.m - base.m
        /\ delta'.y = target.y - base.y
        /\ base' = base /\ target' = target]_vars

C7_Witness ==
  /\ phase = "delta" /\ base.c > target.c /\ delta.c = -400 /\ delta.m = -200


\* ---------------------------------------------------------- App properties
\* an animation-frame pass p runs in this step (its callback leaves the
\* pending set while the render's dependencies stay as they are)
Fires(p) ==
  /\ p \in rafPending /\ p \notin rafPending'
  /\ Delta' = Delta /\ showOriginal' = showOriginal

\* C4: the cached original buffer changes only when an image finishes
\* loading (to that image's pixels); no render pass, setting change, mode
\* switch or compare press/release alters it, and a pass that shows the
\* original puts exactly the cached pixels on the canvas without calling the
\* transform.
C4_OriginalNeverMutated ==
  /\ [](lastPass = "original" => canvas = originalImageData)
  /\ [][/\ originalImageData' # originalImageData =>
             \E img \in loading : /\ loading' = loading \ {img}
                                  /\ originalImageData' = Decode(img.src)
        /\ \A p \in rafPending :
             (Fires(p) /\ p.showOriginal /\ originalImageData # None) =>
                /\ canvas' = originalImageData
                /\ lastPass' = "original"]_vars

C4_Witness ==
  /\ originalImageData = Decode(2)
  /\ lastPass = "original" /\ canvas = originalImageData
  /\ showOriginal /\ Delta.c = MaxSetting
  /\ imageSrc = 2

\* C8: every change of delta or showOriginal leaves exactly one pending
\* animation-frame pass, the one it scheduled, and the pass it replaced
\* wrote nothing; at most one pass is ever pending, and a pass that writes
\* the canvas was scheduled by the most recent change.
C8_RenderCoalescing ==
  /\ [](/\ Cardinality(rafPending) <= 1
        /\ \A p \in rafPending :
             p.id = animationFrameId /\ p.delta = Delta /\ p.showOriginal = showOriginal)
  /\ [][/\ (Delta' # Delta \/ showOriginal' # showOriginal) =>
             /\ rafPending' = {[id |-> animationFrameId', delta |-> Delta',
                                showOriginal |-> showOriginal']}
             /\ canvas' = canvas
        /\ canvas' # canvas =>
             \/ loading' # loading
             \/ \E p \in rafPending :
                  Fires(p) /\ p.delta = Delta /\ p.showOriginal = showOriginal]_vars

C8_Witness ==
  /\ rafPending = {[id |-> animationFrameId, delta |-> Delta, showOriginal |-> TRUE]}
  /\ Delta.c = MaxSetting - 2 /\ showOriginal
  /\ originalImageData # None /\ lastPass = "transform" /\ canvas = originalImageData

\* C9: every channel of the base and of the target setting stays within
\* [0, 200] (0..MaxSetting half units), so every delta channel stays within
\* [-200, 200].
C9_SettingRange ==
  \A key \in Keys :
    /\ initialCMY[key] >= 0 /\ initialCMY[key] <= 400
    /\ targetCMY[key] >= 0 /\ targetCMY[key] <= 400
    /\ Delta[key] >= -400 /\ Delta[key] <= 400

C9_Witness ==
  /\ initialCMY.c = 400 /\ targetCMY.c = 0 /\ Delta.c = -400
  /\ isInitialLocked

\* an image has finished loading and no callback is pending
Quiescent ==
  /\ originalImageData # None
  /\ reading = {} /\ loading = {} /\ rafPending = {}

\* C10: at quiescence the canvas shows the transform of the cached original
\* with the current delta when showOriginal is off, and the cached original
\* when it is on.
C10_DisplayConsistency ==
  Quiescent =>
    IF showOriginal THEN canvas = originalImageData
    ELSE \E heap \in processImageBuffer(originalImageData,
                                        createImageData(originalImageData), Delta) :
           canvas = heap.destination


\* the values a FilterChannel can hand to onChange for channel key: a slider
\* position, or the shown value plus or minus one unit
ChannelInputs(key) == SliderStops \cup {Value(key) + 2, Value(key) - 2}

\* v clamped to [0, 200], in half units
ClampedTo200(v) == IF v < 0 THEN 0 ELSE IF v > 400 THEN 400 ELSE v

\* C11: a base edit (onChange in Set Base mode, i.e. updateInitial(k, v))
\* leaves base.k = target.k = v clamped to [0,200], hence delta.k = 0, and
\* the other two channels of both settings as they were; a target edit
\* (updateTarget) and resetTarget leave the base setting as it was, and
\* after resetTarget the delta is {0,0,0}.
C11_BaseEditsMirror ==
  [][/\ \A k \in Keys : \A v \in ChannelInputs(k) :
          (~isInitialLocked /\ onChange(k, v)) =>
             /\ initialCMY'[k] = ClampedTo200(v)
             /\ targetCMY'[k] = ClampedTo200(v)
             /\ Delta'[k] = 0
             /\ \A j \in Keys \ {k} :
                  initialCMY'[j] = initialCMY[j] /\ targetCMY'[j] = targetCMY[j]
     /\ \A k \in Keys : \A v \in ChannelInputs(k) :
          (isInitialLocked /\ onChange(k, v)) => initialCMY' = initialCMY
     /\ ResetTarget => (initialCMY' = initialCMY /\ Delta' = CMY(0, 0, 0))]_vars

\* Set Base mode with base.c = target.c moved off its initial value, the
\* pass for the resulting zero delta still pending, and the canvas still
\* showing a pass made with a non-zero target adjustment
C11_Witness ==
  /\ ~isInitialLocked
  /\ initialCMY.c = 2 /\ targetCMY.c = 2 /\ Delta = CMY(0, 0, 0)
  /\ rafPending = {[id |-> animationFrameId, delta |-> CMY(0, 0, 0), showOriginal |-> FALSE]}
  /\ originalImageData # None /\ lastPass = "transform" /\ canvas # originalImageData

=============================================================================
